---- MODULE Spec2Model ----
(***************************************************************************)
(* Model of the report exporter: the HTTP handler that fetches a report    *)
(* JSON, renders it to HTML, rasterizes the HTML to PDF in a headless      *)
(* browser and uploads the PDF next to the source report.json, together    *)
(* with its pure helpers parseReportPath, escapeHtml, escapeAttr and       *)
(* renderHTML.                                                             *)
(*                                                                         *)
(* Strings that the helpers inspect character by character are sequences   *)
(* of one-character strings.  A URL is the result of `new URL(...)`:       *)
(* either it does not parse, or it has a pathname, kept as the sequence of *)
(* its "/"-separated segments.  A storage key `a/b/report.pdf` is the      *)
(* sequence of its segments.                                               *)
(***************************************************************************)
EXTENDS Integers, Sequences, FiniteSets, TLC

VARIABLES
    BUCKET,      \* process.env.SUPABASE_BUCKET || "enrich-reports"
    req,         \* the request: method, body.json_url, body.format
    pc,          \* the handler's position (the await it is suspended on)
    headers,     \* headers set on res
    response,    \* the response sent, NoResponse before
    events,      \* calls made by the handler for this request, in order
    failed,      \* the call that threw or reported an error, "none" if none
    log,         \* values passed to console.error for this request
    r,           \* the fetch Response: "none", "ok" or "notok" (r.ok)
    content,     \* r.json()
    html,        \* renderHTML(content)
    browser,     \* this request's browser session: "none", "open", "closed"
    pdfBuffer,   \* page.pdf(...) result present
    uploads,     \* upload calls issued by this request
    written,     \* blobs this request wrote to storage
    storage,     \* the bucket's objects
    doc,         \* renderer check: the report document
    out,         \* renderer check: renderHTML(doc)
    str,         \* escaping check: the input string
    escaped,     \* escaping check: escapeHtml(str)
    attr         \* escaping check: escapeAttr(str)

vars == <<BUCKET, req, pc, headers, response, events, failed, log, r,
          content, html, browser, pdfBuffer, uploads, written,
          storage, doc, out, str, escaped, attr>>

handlerVars == <<BUCKET, req, pc, headers, response, events, failed,
                 log, r, content, html, browser, pdfBuffer, uploads,
                 written, storage>>
renderVars == <<doc, out>>
escapeVars == <<str, escaped, attr>>

(***************************************************************************)
(* Bounds                                                                  *)
(***************************************************************************)
MaxSegs == 4       \* path segments of a json_url
MaxLen == 3        \* characters of a string given to escapeHtml/escapeAttr
MaxFields == 2     \* fields present in a rendered document

(***************************************************************************)
(* Strings as character sequences                                          *)
(***************************************************************************)
Chars == {"a", "&", "<", ">", "\"", "'"}

RECURSIVE Flatten(_)
Flatten(ss) == IF ss = <<>> THEN <<>> ELSE Head(ss) \o Flatten(Tail(ss))

StrsUpTo(n) == UNION {[1..k -> Chars] : k \in 0..n}

\* the replacement table of escapeHtml's callback
EntityOf(m) ==
    CASE m = "&"  -> <<"&", "a", "m", "p", ";">>
      [] m = "<"  -> <<"&", "l", "t", ";">>
      [] m = ">"  -> <<"&", "g", "t", ";">>
      [] m = "\"" -> <<"&", "q", "u", "o", "t", ";">>
      [] m = "'"  -> <<"&", "#", "3", "9", ";">>

\* escapeHtml with the apostrophe missing from its character class
escapeHtmlNoApostrophe(s) ==
    Flatten([i \in 1..Len(s) |->
        IF s[i] \in {"&", "<", ">", "\""} THEN EntityOf(s[i]) ELSE <<s[i]>>])

\* s.replace(/[&<>"']/g, m => table[m]) on String(s || "")
escapeHtml(s) ==
    Flatten([i \in 1..Len(s) |->
        IF s[i] \in {"&", "<", ">", "\"", "'"} THEN EntityOf(s[i]) ELSE <<s[i]>>])

\* t.replace(/"/g, "%22")
ReplaceQuote(t) ==
    Flatten([i \in 1..Len(t) |->
        IF t[i] = "\"" THEN <<"%", "2", "2">> ELSE <<t[i]>>])

escapeAttr(s) == ReplaceQuote(escapeHtml(s))

(***************************************************************************)
(* URLs and parseReportPath                                                *)
(***************************************************************************)
Segs == {"enrich-reports", "b1", "r1", "report.json", ""}

PathsUpTo(n) == UNION {[1..k -> Segs] : k \in 0..n}

\* json_url of the request body: absent (undefined), the empty string, a
\* non-empty string that `new URL` rejects, or a URL with its pathname
JsonUrls ==
    {[kind |-> k, path |-> <<>>] : k \in {"absent", "empty", "malformed"}}
    \cup {[kind |-> "url", path |-> p] : p \in PathsUpTo(MaxSegs)}

Null == "null"   \* JavaScript null; no path segment of the model is "null"

\* the match with [^/]* for [^/]+ : empty tokens accepted
PathnameMatchEmptyTokens(path) ==
    LET n == Len(path) IN
    IF /\ n >= 4
       /\ path[n - 3] = "enrich-reports"
       /\ path[n] = "report.json"
    THEN <<path[n - 2], path[n - 1]>>
    ELSE <<>>

\* u.pathname.match(/\/enrich-reports\/([^/]+)\/([^/]+)\/report\.json$/):
\* "/" precedes every segment, so the regex matches exactly when the last
\* four segments are enrich-reports, a non-empty token, a non-empty token
\* and report.json.  The result is <<m[1], m[2]>>, or <<>> for no match.
PathnameMatch(path) ==
    LET n == Len(path) IN
    IF /\ n >= 4
       /\ path[n - 3] = "enrich-reports"
       /\ path[n - 2] # ""
       /\ path[n - 1] # ""
       /\ path[n] = "report.json"
    THEN <<path[n - 2], path[n - 1]>>
    ELSE <<>>

parseReportPath(jsonUrl) ==
    IF jsonUrl.kind # "url"
    THEN [bizId |-> Null, reportId |-> Null]            \* new URL threw: catch
    ELSE LET m == PathnameMatch(jsonUrl.path) IN
         [bizId    |-> IF m = <<>> THEN Null ELSE m[1],  \* m?.[1] ?? null
          reportId |-> IF m = <<>> THEN Null ELSE m[2]]  \* m?.[2] ?? null

(***************************************************************************)
(* renderHTML                                                              *)
(***************************************************************************)
Fields ==
    {"header.business_name", "header.location_city", "header.location_country",
     "header.website_url", "header.contact_email",
     "overview.growth_transparency_badge", "overview.ai_summary",
     "overview.goals", "overview.certifications", "operations.information",
     "standards.global_unwto", "standards.national_ctc",
     "local_impact.information", "people_partnerships.information",
     "insights.local_suppliers", "insights.employee", "insights.economic",
     "recommendations.goals", "recommendations.operations"}

\* A document is JSON null, or an object whose optional fields are read
\* through `||` and `?.`: an absent field, an absent parent and "" all read
\* as falsy, and are the empty sequence here.
EmptyFields == [f \in Fields |-> <<>>]
NullDoc == [isNull |-> TRUE, f |-> EmptyFields]
EmptyDoc == [isNull |-> FALSE, f |-> EmptyFields]

Chr(s) == CASE s = "Business Overview" ->
                 <<"B","u","s","i","n","e","s","s"," ","O","v","e","r","v","i","e","w">>
            [] s = "Business" -> <<"B","u","s","i","n","e","s","s">>
            [] s = "Initiated" -> <<"I","n","i","t","i","a","t","e","d">>

Or(v, d) == IF v # <<>> THEN v ELSE d          \* v || d

Tpl(lines) == [kind |-> "tpl", text |-> lines]  \* literal text of the template
Val(chars) == [kind |-> "val", text |-> chars]  \* the value of a ${...}

\* content.header throws a TypeError when content is null
renderThrows(c) == c.isNull

Section(title, value) ==
    <<Tpl(<<"<div class=\"section\">", "<div class=\"k\">", title, "</div>", "<div>">>),
      Val(escapeHtml(value)),
      Tpl(<<"</div>", "</div>">>)>>

\* The result is the sequence of the template literal's parts: its literal
\* text (line by line, indentation dropped) and the values of its ${...}.
\* The non-ASCII characters of the template are written U+2022 (bullet) and
\* U+2014 (em dash).
renderHTML(c) ==
    LET h(k) == c.f[k]
        s(k) == c.f[k]
        badge == Or(s("overview.growth_transparency_badge"), Chr("Initiated"))
    IN
    <<Tpl(<<"<!doctype html>", "<html>", "<head>", "<meta charset=\"utf-8\"/>", "<title>">>),
      Val(escapeHtml(Or(h("header.business_name"), Chr("Business Overview")))),
      Tpl(<<"</title>", "<style>",
            "body { font-family: Inter, system-ui, -apple-system, Segoe UI, Roboto, Arial, sans-serif; color: #111; padding: 16px; }",
            ".header { display:flex; justify-content:space-between; align-items:flex-start; border-bottom:1px solid #e5e7eb; padding:16px 0; }",
            ".h-title { font-size:20px; font-weight:700; }",
            ".h-meta { color:#555; font-size:12px; }",
            ".section { padding:12px 0; }",
            ".k { font-weight:600; margin-bottom:4px; }",
            ".pill { display:inline-block; padding:4px 8px; border-radius:999px; font-size:12px; background:#f3f4f6; }",
            ".grid-2 { display:grid; grid-template-columns: 1fr 1fr; gap:16px; }",
            "@media print { [data-no-print=\"true\"]{ display:none !important; } }",
            "</style>", "</head>", "<body>",
            "<div class=\"header\">", "<div>", "<div class=\"h-title\">">>),
      Val(escapeHtml(Or(h("header.business_name"), Chr("Business")))),
      Tpl(<<"</div>", "<div class=\"h-meta\">">>),
      Val(IF h("header.location_city") # <<>> THEN escapeHtml(h("header.location_city")) ELSE <<>>),
      Tpl(IF h("header.location_city") # <<>> /\ h("header.location_country") # <<>>
          THEN <<", ">> ELSE <<>>),
      Val(IF h("header.location_country") # <<>> THEN escapeHtml(h("header.location_country")) ELSE <<>>)>>
    \o (IF h("header.website_url") # <<>>
        THEN <<Tpl(<<" U+2022 <a href=\"">>),
               Val(escapeAttr(h("header.website_url"))),
               Tpl(<<"\">">>),
               Val(escapeHtml(h("header.website_url"))),
               Tpl(<<"</a>">>)>>
        ELSE <<>>)
    \o (IF h("header.contact_email") # <<>>
        THEN <<Tpl(<<" U+2022 ">>), Val(escapeHtml(h("header.contact_email")))>>
        ELSE <<>>)
    \o <<Tpl(<<"</div>", "</div>", "<div><span class=\"pill\">">>),
         Val(escapeHtml(badge)),
         Tpl(<<"</span></div>", "</div>">>)>>
    \o Section("Executive Summary", Or(s("overview.ai_summary"), <<>>))
    \o <<Tpl(<<"<div class=\"grid-2\">">>)>>
    \o Section("Goals", Or(s("overview.goals"), <<>>))
    \o Section("Certifications", Or(s("overview.certifications"), <<>>))
    \o <<Tpl(<<"</div>", "<div class=\"grid-2\">">>)>>
    \o Section("Operations", Or(s("operations.information"), <<>>))
    \o <<Tpl(<<"<div class=\"section\">", "<div class=\"k\">",
               "Standards (UN / National)", "</div>", "<div>">>),
         Val(escapeHtml(Or(s("standards.global_unwto"), <<>>))),
         Tpl(<<"</div>", "<div>">>),
         Val(escapeHtml(Or(s("standards.national_ctc"), <<>>))),
         Tpl(<<"</div>", "</div>">>)>>
    \o <<Tpl(<<"</div>", "<div class=\"grid-2\">">>)>>
    \o Section("Local Impact", Or(s("local_impact.information"), <<>>))
    \o Section("People & Partnerships", Or(s("people_partnerships.information"), <<>>))
    \o <<Tpl(<<"</div>", "<div class=\"grid-2\">">>)>>
    \o Section("Insight U+2014 Local Suppliers", Or(s("insights.local_suppliers"), <<>>))
    \o Section("Insight U+2014 Employee", Or(s("insights.employee"), <<>>))
    \o <<Tpl(<<"</div>">>)>>
    \o Section("Insight U+2014 Economic", Or(s("insights.economic"), <<>>))
    \o <<Tpl(<<"<div class=\"grid-2\">">>)>>
    \o Section("Recommendations U+2014 Goals", Or(s("recommendations.goals"), <<>>))
    \o Section("Recommendations U+2014 Operations", Or(s("recommendations.operations"), <<>>))
    \o <<Tpl(<<"</div>", "</body>", "</html>">>)>>

(***************************************************************************)
(* The handler                                                             *)
(***************************************************************************)
Undefined == "undefined"

Methods == {"OPTIONS", "POST", "GET"}
Formats == {Undefined, "pdf", "docx"}
Requests == [method : Methods, json_url : JsonUrls, format : Formats]

Buckets == {"enrich-reports", "other-bucket"}

\* Response bodies: send("") and json({error}) and json({ok: true, url})
NoBody == [kind |-> "none", ok |-> FALSE, error |-> Undefined, url |-> <<>>]
EmptyText == [kind |-> "text", ok |-> FALSE, error |-> Undefined, url |-> <<>>]
JsonError(m) == [kind |-> "json", ok |-> FALSE, error |-> m, url |-> <<>>]
JsonOk(u) == [kind |-> "json", ok |-> TRUE, error |-> Undefined, url |-> u]
NoResponse == [status |-> 0, body |-> NoBody]

\* What a failing call throws: an Error whose message names the call, or a
\* value without a message property
Thrown(call) == {[message |-> call, text |-> call],
                 [message |-> Undefined, text |-> call]}

\* String(e?.message ?? e)
ErrorMessage(e) == IF e.message # Undefined THEN e.message ELSE e.text

\* content.header on null
TypeErrorHeader ==
    [message |-> "Cannot read properties of null (reading 'header')",
     text |-> "TypeError"]

\* the documents r.json() yields in the handler runs: JSON null and a report
SampleDoc ==
    [isNull |-> FALSE,
     f |-> [EmptyFields EXCEPT !["header.business_name"] = <<"a", "&">>,
                               !["header.website_url"] = <<"a", "\"">>]]
HandlerDocs == {NullDoc, SampleDoc}

CORSHeaders ==
    {<<"Access-Control-Allow-Origin", "*">>,
     <<"Access-Control-Allow-Methods", "POST, OPTIONS">>,
     <<"Access-Control-Allow-Headers", "Content-Type">>}

\* withCORS setting the origin header only
withCORSOriginOnly(hs) ==
    {h \in hs : h[1] # "Access-Control-Allow-Origin"}
    \cup {<<"Access-Control-Allow-Origin", "*">>}

\* res.setHeader(name, value) for each of the three
withCORS(hs) ==
    {h \in hs : \A c \in CORSHeaders : h[1] # c[1]} \cup CORSHeaders

\* an object of the bucket
Blob(bucket, key, contentType) ==
    [bucket |-> bucket, key |-> key, contentType |-> contentType]

\* an export made before this request, which this one may replace
OldBlob(bucket) == Blob(bucket, <<"b1", "r1", "report.pdf">>, "application/pdf")

\* supabase.storage.from(bucket).upload(path, body, options) succeeding
Store(st, call) ==
    {o \in st : ~(o.bucket = call.bucket /\ o.key = call.path)}
    \cup {Blob(call.bucket, call.path, call.contentType)}

\* upload without upsert fails on an existing object
CanStore(st, call) ==
    call.upsert \/ ~\E o \in st : o.bucket = call.bucket /\ o.key = call.path

\* supabase.storage.from(bucket).getPublicUrl(path).data.publicUrl
getPublicUrl(bucket, path) ==
    <<"storage", "v1", "object", "public", bucket>> \o path

\* the path with the two ids in the wrong order
pdfPathSwapped(p) == <<p.reportId, p.bizId, "report.pdf">>

\* `${bizId}/${reportId}/report.pdf`
pdfPathOf(p) == <<p.bizId, p.reportId, "report.pdf">>

\* the upload call of lines 58-62
UploadCall(bucket, path) ==
    [bucket |-> bucket, path |-> path, cacheControl |-> "3600",
     contentType |-> "application/pdf", upsert |-> TRUE]

Falsy(v) == v = Null \/ v = "" \/ v = Undefined

\* return res.status(status).json(body) / .send(body)
Send(status, body, evs) ==
    /\ response' = [status |-> status, body |-> body]
    /\ events' = Append(evs, "respond")
    /\ pc' = "done"

\* a catch block that answers with a fixed code instead of the message
CatchFixedCode(e, call, evs) ==
    /\ failed' = call
    /\ log' = Append(log, e)
    /\ Send(500, JsonError("internal_error"), Append(evs, "console.error"))

\* the catch block: console.error(e); return res.status(500).json(...)
Catch(e, call, evs) ==
    /\ failed' = call
    /\ log' = Append(log, e)
    /\ Send(500, JsonError(ErrorMessage(e)), Append(evs, "console.error"))

\* a validation failure: return res.status(status).json({error: code})
Reject(status, code, call, evs) ==
    /\ failed' = call
    /\ Send(status, JsonError(code), evs)
    /\ UNCHANGED log

\* the handler continues to the next await
Await(call, evs) ==
    /\ pc' = call
    /\ events' = Append(evs, call)
    /\ UNCHANGED <<response, failed, log>>

Init ==
    /\ BUCKET \in Buckets
    /\ req \in Requests
    /\ pc = "start"
    /\ headers = {}
    /\ response = NoResponse
    /\ events = <<>>
    /\ failed = "none"
    /\ log = <<>>
    /\ r = "none"
    /\ content = EmptyDoc
    /\ html = <<>>
    /\ browser = "none"
    /\ pdfBuffer = FALSE
    /\ uploads = <<>>
    /\ written = {}
    /\ storage \in {{}, {OldBlob(BUCKET)}}
    /\ doc = EmptyDoc
    /\ out = <<>>
    /\ str = <<>>
    /\ escaped = <<>>
    /\ attr = <<>>

\* the handler with the format check before the json_url check
HandleFormatFirst ==
    /\ pc = "start"
    /\ headers' = withCORS(headers)
    /\ LET evs == Append(events, "withCORS")
           format == IF req.format = Undefined THEN "pdf" ELSE req.format
       IN
       IF req.method = "OPTIONS"
       THEN Send(204, EmptyText, evs) /\ UNCHANGED <<failed, log>>
       ELSE IF req.method # "POST"
       THEN Reject(405, "method_not_allowed", "method", evs)
       ELSE IF format # "pdf"
       THEN Reject(400, "unsupported_format", "format", evs)
       ELSE IF req.json_url.kind \in {"absent", "empty"}
       THEN Reject(400, "missing_json_url", "json_url", evs)
       ELSE Await("fetch", evs)
    /\ UNCHANGED <<BUCKET, req, r, content, html, browser, pdfBuffer, uploads,
                   written, storage, renderVars, escapeVars>>

\* lines 19-30: CORS, method, json_url and format checks, fetch issued
Handle ==
    /\ pc = "start"
    /\ headers' = withCORS(headers)
    /\ LET evs == Append(events, "withCORS")
           format == IF req.format = Undefined THEN "pdf" ELSE req.format
       IN
       IF req.method = "OPTIONS"
       THEN Send(204, EmptyText, evs) /\ UNCHANGED <<failed, log>>
       ELSE IF req.method # "POST"
       THEN Reject(405, "method_not_allowed", "method", evs)
       ELSE IF req.json_url.kind \in {"absent", "empty"}
       THEN Reject(400, "missing_json_url", "json_url", evs)
       ELSE IF format # "pdf"
       THEN Reject(400, "unsupported_format", "format", evs)
       ELSE Await("fetch", evs)
    /\ UNCHANGED <<BUCKET, req, r, content, html, browser, pdfBuffer, uploads,
                   written, storage, renderVars, escapeVars>>

\* the !r.ok branch without its return: the 400 is sent and the handler
\* goes on to r.json()
FetchReturnsNoReturn ==
    /\ pc = "fetch"
    /\ \/ /\ \E e \in Thrown("fetch") : Catch(e, "fetch", events)
          /\ UNCHANGED r
       \/ /\ req.json_url.kind = "url"
          /\ r' \in {"ok", "notok"}
          /\ IF r' = "notok"
             THEN /\ response' = [status |-> 400, body |-> JsonError("invalid_json_url")]
                  /\ events' = events \o <<"respond", "json">>
                  /\ pc' = "json"
                  /\ failed' = "fetch"
                  /\ UNCHANGED log
             ELSE Await("json", events)
    /\ UNCHANGED <<BUCKET, req, headers, content, html, browser, pdfBuffer,
                   uploads, written, storage, renderVars, escapeVars>>

\* lines 30-32: fetch settles; a string that is no URL makes fetch throw
FetchReturns ==
    /\ pc = "fetch"
    /\ \/ /\ \E e \in Thrown("fetch") : Catch(e, "fetch", events)
          /\ UNCHANGED r
       \/ /\ req.json_url.kind = "url"
          /\ r' \in {"ok", "notok"}
          /\ IF r' = "notok"
             THEN Reject(400, "invalid_json_url", "fetch", events)
             ELSE Await("json", events)
    /\ UNCHANGED <<BUCKET, req, headers, content, html, browser, pdfBuffer,
                   uploads, written, storage, renderVars, escapeVars>>

\* lines 32-38: r.json() settles, renderHTML runs, executablePath is called
JsonReturns ==
    /\ pc = "json"
    /\ \/ /\ \E e \in Thrown("json") : Catch(e, "json", events)
          /\ UNCHANGED <<content, html>>
       \/ \E c \in HandlerDocs :
            /\ content' = c
            /\ IF renderThrows(c)
               THEN /\ Catch(TypeErrorHeader, "renderHTML", Append(events, "renderHTML"))
                    /\ UNCHANGED html
               ELSE /\ html' = renderHTML(c)
                    /\ Await("executablePath", Append(events, "renderHTML"))
    /\ UNCHANGED <<BUCKET, req, r, headers, browser, pdfBuffer, uploads, written,
                   storage, renderVars, escapeVars>>

\* lines 38-39: chromium.executablePath() settles, puppeteer.launch is called
ExecutablePathReturns ==
    /\ pc = "executablePath"
    /\ \/ \E e \in Thrown("executablePath") : Catch(e, "executablePath", events)
       \/ Await("launch", events)
    /\ UNCHANGED <<BUCKET, req, r, headers, content, html, browser, pdfBuffer,
                   uploads, written, storage, renderVars, escapeVars>>

\* lines 39-44: launch settles with the browser, newPage is called
LaunchReturns ==
    /\ pc = "launch"
    /\ \/ /\ \E e \in Thrown("launch") : Catch(e, "launch", events)
          /\ UNCHANGED browser
       \/ /\ browser' = "open"
          /\ Await("newPage", events)
    /\ UNCHANGED <<BUCKET, req, r, headers, content, html, pdfBuffer, uploads,
                   written, storage, renderVars, escapeVars>>

\* lines 44-45: newPage settles, setContent is called
NewPageReturns ==
    /\ pc = "newPage"
    /\ \/ \E e \in Thrown("newPage") : Catch(e, "newPage", events)
       \/ Await("setContent", events)
    /\ UNCHANGED <<BUCKET, req, r, headers, content, html, browser, pdfBuffer,
                   uploads, written, storage, renderVars, escapeVars>>

\* lines 45-46: setContent settles, page.pdf is called
SetContentReturns ==
    /\ pc = "setContent"
    /\ \/ \E e \in Thrown("setContent") : Catch(e, "setContent", events)
       \/ Await("pdf", events)
    /\ UNCHANGED <<BUCKET, req, r, headers, content, html, browser, pdfBuffer,
                   uploads, written, storage, renderVars, escapeVars>>

\* lines 46-51: page.pdf settles with the buffer, browser.close is called
PdfReturns ==
    /\ pc = "pdf"
    /\ \/ /\ \E e \in Thrown("pdf") : Catch(e, "pdf", events)
          /\ UNCHANGED pdfBuffer
       \/ /\ pdfBuffer' = TRUE
          /\ Await("close", events)
    /\ UNCHANGED <<BUCKET, req, r, headers, content, html, browser, uploads,
                   written, storage, renderVars, escapeVars>>

\* lines 51-62: close settles, the report path is parsed, upload is called.
\* A close that throws leaves the session open or ended.
CloseReturns ==
    /\ pc = "close"
    /\ \/ /\ \E e \in Thrown("close") : Catch(e, "close", events)
          /\ browser' \in {"open", "closed"}
          /\ UNCHANGED uploads
       \/ /\ browser' = "closed"
          /\ LET p == parseReportPath(req.json_url)
                 evs == Append(events, "parseReportPath")
             IN IF Falsy(p.bizId) \/ Falsy(p.reportId)
                THEN /\ Reject(400, "cannot_parse_report_path", "parseReportPath", evs)
                     /\ UNCHANGED uploads
                ELSE /\ uploads' = Append(uploads, UploadCall(BUCKET, pdfPathOf(p)))
                     /\ Await("upload", evs)
    /\ UNCHANGED <<BUCKET, req, r, headers, content, html, pdfBuffer, written,
                   storage, renderVars, escapeVars>>

\* the upload step without `if (upErr) throw upErr`: a reported error is
\* ignored and 200 is sent
UploadReturnsIgnoringError ==
    /\ pc = "upload"
    /\ LET call == uploads[Len(uploads)]
           url == getPublicUrl(BUCKET, pdfPathOf(parseReportPath(req.json_url)))
       IN
       \/ /\ UNCHANGED <<storage, written, failed, log>>
          /\ Send(200, JsonOk(url), Append(events, "getPublicUrl"))
       \/ /\ CanStore(storage, call)
          /\ storage' = Store(storage, call)
          /\ written' = written \cup {Blob(call.bucket, call.path, call.contentType)}
          /\ Send(200, JsonOk(url), Append(events, "getPublicUrl"))
          /\ UNCHANGED <<failed, log>>
    /\ UNCHANGED <<BUCKET, req, r, headers, content, html, browser, pdfBuffer,
                   uploads, renderVars, escapeVars>>

\* lines 58-66: upload settles; an error is thrown, else the public URL of
\* the same path is returned with 200
UploadReturns ==
    /\ pc = "upload"
    /\ LET call == uploads[Len(uploads)] IN
       \/ /\ \E e \in Thrown("upload") : Catch(e, "upload", events)
          /\ UNCHANGED <<storage, written>>
       \/ /\ CanStore(storage, call)
          /\ storage' = Store(storage, call)
          /\ written' = written \cup {Blob(call.bucket, call.path, call.contentType)}
          /\ Send(200, JsonOk(getPublicUrl(BUCKET, pdfPathOf(parseReportPath(req.json_url)))),
                  Append(events, "getPublicUrl"))
          /\ UNCHANGED <<failed, log>>
    /\ UNCHANGED <<BUCKET, req, r, headers, content, html, browser, pdfBuffer,
                   uploads, renderVars, escapeVars>>

Next ==
    \/ Handle
    \/ FetchReturns
    \/ JsonReturns
    \/ ExecutablePathReturns
    \/ LaunchReturns
    \/ NewPageReturns
    \/ SetContentReturns
    \/ PdfReturns
    \/ CloseReturns
    \/ UploadReturns

Spec == Init /\ [][Next]_vars

(***************************************************************************)
(* renderHTML on bounded documents                                         *)
(***************************************************************************)
\* field values: plain text, markup characters, quotes, an entity-like text
FieldValues ==
    {<<"a">>, <<"&", "<">>, <<">", "\"", "'">>, <<"&", "a", "m", "p", ";">>}

RECURSIVE FieldSetsUpTo(_)
FieldSetsUpTo(k) ==
    IF k = 0 THEN {{}}
    ELSE LET P == FieldSetsUpTo(k - 1) IN P \cup {S \cup {f} : S \in P, f \in Fields}

\* the report document with the fields of S present, valued by g
DocOf(S, g) ==
    [isNull |-> FALSE, f |-> [x \in Fields |-> IF x \in S THEN g[x] ELSE <<>>]]

HandlerIdle ==
    /\ BUCKET = "enrich-reports"
    /\ req = [method |-> "POST", json_url |-> [kind |-> "absent", path |-> <<>>],
              format |-> Undefined]
    /\ headers = {}
    /\ response = NoResponse
    /\ events = <<>>
    /\ failed = "none"
    /\ log = <<>>
    /\ r = "none"
    /\ content = EmptyDoc
    /\ html = <<>>
    /\ browser = "none"
    /\ pdfBuffer = FALSE
    /\ uploads = <<>>
    /\ written = {}
    /\ storage = {}

InitRender ==
    /\ HandlerIdle
    /\ pc = "render"
    /\ \E S \in FieldSetsUpTo(MaxFields) :
         \E g \in [S -> FieldValues] : doc = DocOf(S, g)
    /\ out = <<>>
    /\ str = <<>>
    /\ escaped = <<>>
    /\ attr = <<>>

\* const html = renderHTML(content)
Render ==
    /\ pc = "render"
    /\ ~renderThrows(doc)
    /\ out' = renderHTML(doc)
    /\ pc' = "rendered"
    /\ UNCHANGED <<BUCKET, req, headers, response, events, failed, log, r,
                   content, html, browser, pdfBuffer, uploads, written,
                   storage, doc, escapeVars>>

NextRender == Render

SpecRender == InitRender /\ [][NextRender]_vars

(***************************************************************************)
(* escapeHtml and escapeAttr on bounded strings                            *)
(***************************************************************************)
InitEscape ==
    /\ HandlerIdle
    /\ pc = "escape"
    /\ doc = EmptyDoc
    /\ out = <<>>
    /\ str \in StrsUpTo(MaxLen)
    /\ escaped = <<>>
    /\ attr = <<>>

Escape ==
    /\ pc = "escape"
    /\ escaped' = escapeHtml(str)
    /\ attr' = escapeAttr(str)
    /\ pc' = "escaped"
    /\ UNCHANGED <<BUCKET, req, headers, response, events, failed, log, r,
                   content, html, browser, pdfBuffer, uploads, written,
                   storage, renderVars, str>>

NextEscape == Escape

SpecEscape == InitEscape /\ [][NextEscape]_vars

(***************************************************************************)
(* Properties                                                              *)
(***************************************************************************)
Has(evs, x) == \E i \in 1..Len(evs) : evs[i] = x

Done == pc = "done"
Posted == req.method = "POST"
UrlGiven == req.json_url.kind \in {"malformed", "url"}
PdfAsked == req.format \in {Undefined, "pdf"}
ErrorResponse(status, code) == response = [status |-> status, body |-> JsonError(code)]
NothingStored == written = {} /\ storage \in {{}, {OldBlob(BUCKET)}}
NoBrowserNoUpload ==
    /\ browser = "none" /\ ~Has(events, "launch")
    /\ uploads = <<>> /\ NothingStored

\* C1: once the browser session was acquired, it is closed when the handler
\* has sent its response, on every exit path.
C1_SessionClosedAtResponse ==
    (Done /\ browser # "none") => browser = "closed"

\* C2 as stated: a finished request either stored the PDF and answered
\* 200 {ok:true,url}, or stored nothing and answered 400, 405 or 500.
C2_OkOrError ==
    Done =>
      \/ /\ response.status = 200 /\ response.body.ok
         /\ written # {} /\ written \subseteq storage
      \/ /\ response.status \in {400, 405, 500}
         /\ response.body.kind = "json" /\ ~response.body.ok
         /\ NothingStored

\* C2 amended: as C2, with the third outcome the handler has: an OPTIONS
\* preflight answered 204, nothing stored.  A stored blob with an error
\* response, and a 200 without a stored blob, are unreachable.
C2_NoPartialSuccess ==
    Done =>
      \/ /\ response.status = 200 /\ response.body.ok
         /\ written # {} /\ written \subseteq storage
      \/ /\ response.status \in {400, 405, 500}
         /\ response.body.kind = "json" /\ ~response.body.ok
         /\ NothingStored
      \/ /\ req.method = "OPTIONS" /\ response.status = 204
         /\ NothingStored

C2_Witness ==
    /\ Done /\ failed = "upload" /\ response.status = 500
    /\ written = {} /\ storage = {OldBlob(BUCKET)}

\* the spec's pattern /<bucket>/<businessId>/<reportId>/report.json, each
\* <..> a non-empty token without "/"
MatchesReportPattern(u) ==
    /\ u.kind = "url"
    /\ Len(u.path) >= 4
    /\ u.path[Len(u.path)] = "report.json"
    /\ \A i \in 1..3 : u.path[Len(u.path) - i] # ""

UnparseableRequest ==
    Posted /\ UrlGiven /\ PdfAsked /\ ~MatchesReportPattern(req.json_url)

\* C3 as stated: for a json_url that is malformed or does not match the
\* pattern, parseReportPath gives (null, null) and the POST is answered
\* 400 cannot_parse_report_path.
C3_AlwaysCannotParse ==
    UnparseableRequest =>
      /\ parseReportPath(req.json_url) = [bizId |-> Null, reportId |-> Null]
      /\ Done => ErrorResponse(400, "cannot_parse_report_path")

\* C3 amended: for such a json_url parseReportPath gives (null, null), and
\* the POST is answered 400 cannot_parse_report_path when the fetch, the
\* JSON parse, the rendering and the rasterizing (through browser.close) all
\* succeeded; otherwise the answer is that of the earlier failure (400
\* invalid_json_url or 500).  Nothing is uploaded and 200 is never sent.
C3_CannotParseAfterPipeline ==
    UnparseableRequest =>
      /\ parseReportPath(req.json_url) = [bizId |-> Null, reportId |-> Null]
      /\ Done =>
           /\ IF failed \in {"fetch", "json", "renderHTML", "executablePath",
                             "launch", "newPage", "setContent", "pdf", "close"}
              THEN \/ ErrorResponse(400, "invalid_json_url") /\ r = "notok"
                   \/ response.status = 500
              ELSE ErrorResponse(400, "cannot_parse_report_path")
           /\ req.json_url.kind = "malformed" => response.status = 500
           /\ uploads = <<>> /\ NothingStored

C3_Witness ==
    /\ Done /\ UnparseableRequest /\ pdfBuffer /\ browser = "closed"
    /\ req.json_url.path = <<"enrich-reports", "", "r1", "report.json">>
    /\ ErrorResponse(400, "cannot_parse_report_path")

\* C4: the first failing check among method, json_url, format, fetch status
\* decides the 405/400 response; none of them launches a browser or uploads,
\* and the first three issue no fetch.
C4_ValidationOrder ==
    Done =>
      /\ req.method \notin {"POST", "OPTIONS"} =>
           /\ ErrorResponse(405, "method_not_allowed")
           /\ ~Has(events, "fetch") /\ NoBrowserNoUpload
      /\ (Posted /\ ~UrlGiven) =>
           /\ ErrorResponse(400, "missing_json_url")
           /\ ~Has(events, "fetch") /\ NoBrowserNoUpload
      /\ (Posted /\ UrlGiven /\ ~PdfAsked) =>
           /\ ErrorResponse(400, "unsupported_format")
           /\ ~Has(events, "fetch") /\ NoBrowserNoUpload
      /\ (Posted /\ UrlGiven /\ PdfAsked /\ r = "notok") =>
           /\ ErrorResponse(400, "invalid_json_url")
           /\ NoBrowserNoUpload

C4_Witness ==
    /\ Done /\ Posted /\ ~UrlGiven /\ req.format = "docx"
    /\ ErrorResponse(400, "missing_json_url")

NoDuplicates(evs) == \A i, j \in 1..Len(evs) : evs[i] = evs[j] => i = j

\* C5: any failure other than a non-success fetch status or an unparseable
\* report path ends the request with 500 {error: message of the failure},
\* logged before the response is sent, and no call is made twice.
C5_FailureIs500 ==
    Done =>
      /\ (failed \in {"fetch", "json", "renderHTML", "executablePath", "launch",
                      "newPage", "setContent", "pdf", "close", "upload"}
          /\ r # "notok") =>
           /\ Len(log) = 1
           /\ log[1] \in Thrown(failed) \cup {TypeErrorHeader}
           /\ response.status = 500
           /\ response.body =
                JsonError(IF log[1].message # Undefined
                          THEN log[1].message ELSE log[1].text)
           /\ Len(events) >= 2
           /\ SubSeq(events, Len(events) - 1, Len(events)) = <<"console.error", "respond">>
           /\ Has(events, failed)
      /\ response.status = 500 => failed \notin {"none", "method", "json_url", "format", "parseReportPath"}
      /\ NoDuplicates(events)

C5_Witness ==
    /\ Done /\ failed = "upload" /\ response.status = 500
    /\ response.body.error = "upload" /\ log = <<[message |-> Undefined, text |-> "upload"]>>

\* C6: a 200 response means exactly one blob was written, as application/pdf
\* with overwrite enabled, at <businessId>/<reportId>/report.pdf taken from
\* the two segments before report.json, and url is that key's public URL.
C6_PdfNextToJson ==
    (Done /\ response.status = 200) =>
      LET n == Len(req.json_url.path)
          key == <<req.json_url.path[n - 2], req.json_url.path[n - 1], "report.pdf">>
      IN /\ req.json_url.kind = "url" /\ n >= 4
         /\ req.json_url.path[n] = "report.json"
         /\ Len(uploads) = 1
         /\ uploads[1].path = key
         /\ uploads[1].contentType = "application/pdf"
         /\ uploads[1].upsert
         /\ written = {Blob(BUCKET, key, "application/pdf")}
         /\ written \subseteq storage
         /\ \A o \in storage : o.key = key => o \in written
         /\ response.body = JsonOk(<<"storage", "v1", "object", "public", BUCKET>> \o key)

C6_Witness ==
    /\ Done /\ response.status = 200
    /\ req.json_url.path = <<"enrich-reports", "r1", "b1", "report.json">>
    /\ storage = {OldBlob(BUCKET), Blob(BUCKET, <<"r1", "b1", "report.pdf">>, "application/pdf")}

\* C7: every response carries the three CORS headers, and OPTIONS is always
\* answered 204 with an empty body and no fetch, browser or upload.
C7_CORSOnEveryResponse ==
    Done =>
      /\ response.status \in {204, 405, 400, 500, 200}
      /\ {<<"Access-Control-Allow-Origin", "*">>,
          <<"Access-Control-Allow-Methods", "POST, OPTIONS">>,
          <<"Access-Control-Allow-Headers", "Content-Type">>} \subseteq headers
      /\ req.method = "OPTIONS" =>
           /\ response = [status |-> 204, body |-> EmptyText]
           /\ ~Has(events, "fetch") /\ NoBrowserNoUpload

C7_Witness ==
    /\ Done /\ req.method = "OPTIONS" /\ req.json_url.kind = "url"
    /\ response.status = 204 /\ Cardinality(headers) = 3

Pipeline ==
    <<"fetch", "json", "renderHTML", "executablePath", "launch", "newPage",
      "setContent", "pdf", "close", "parseReportPath", "upload", "getPublicUrl">>

IsPipelineCall(x) == Has(Pipeline, x)
Calls(evs) == SelectSeq(evs, IsPipelineCall)

\* C8: the calls of a request are a prefix of fetch, render, rasterize,
\* resolve path, upload, each made once and only while no other is pending;
\* nothing is started after a failure, and respond is the last event.
C8_LinearPipeline ==
    LET c == Calls(events)
        k == Len(c)
    IN /\ k <= Len(Pipeline)
       /\ c = SubSeq(Pipeline, 1, k)
       /\ \A i \in 1..Len(events) : events[i] = "respond" => i = Len(events)
       /\ Has(events, "respond") <=> Done
       /\ pc \notin {"start", "done"} => (k > 0 /\ c[k] = pc /\ failed = "none")
       /\ IsPipelineCall(failed) => (Done /\ k > 0 /\ c[k] = failed)
       /\ response # NoResponse <=> Done

C8_Witness ==
    /\ Done /\ response.status = 200
    /\ Calls(events) = Pipeline

\* the replacement the escaping is specified to make
RECURSIVE EscapedText(_)
EscapedText(s) ==
    IF s = <<>> THEN <<>>
    ELSE (CASE Head(s) = "&"  -> <<"&", "a", "m", "p", ";">>
            [] Head(s) = "<"  -> <<"&", "l", "t", ";">>
            [] Head(s) = ">"  -> <<"&", "g", "t", ";">>
            [] Head(s) = "\"" -> <<"&", "q", "u", "o", "t", ";">>
            [] Head(s) = "'"  -> <<"&", "#", "3", "9", ";">>
            [] OTHER -> <<Head(s)>>) \o EscapedText(Tail(s))

EntityTexts ==
    {<<"&", "a", "m", "p", ";">>, <<"&", "l", "t", ";">>, <<"&", "g", "t", ";">>,
     <<"&", "q", "u", "o", "t", ";">>, <<"&", "#", "3", "9", ";">>}

\* no < > " ' in t, and every & of t starts one of the five entities
NoRawMarkup(t) ==
    \A i \in 1..Len(t) :
      /\ t[i] \notin {"<", ">", "\"", "'"}
      /\ t[i] = "&" =>
           \E e \in EntityTexts :
             /\ i + Len(e) - 1 <= Len(t)
             /\ SubSeq(t, i, i + Len(e) - 1) = e

DefaultTexts ==
    {<<>>, Chr("Business Overview"), Chr("Business"), Chr("Initiated")}

\* C9: every interpolated value of the rendered HTML is a field of the
\* document (or a default) with & < > " ' replaced by their entities, so no
\* raw markup character of the document reaches the output; every field
\* present in the document is rendered so.
C9_ValuesEscaped ==
    pc = "rendered" =>
      /\ \A i \in 1..Len(out) :
           out[i].kind = "val" =>
             /\ NoRawMarkup(out[i].text)
             /\ out[i].text \in
                  {EscapedText(v) : v \in {doc.f[x] : x \in Fields} \cup DefaultTexts}
      /\ \A x \in Fields :
           doc.f[x] # <<>> =>
             \E i \in 1..Len(out) :
               out[i].kind = "val" /\ out[i].text = EscapedText(doc.f[x])

C9_Witness ==
    /\ pc = "rendered"
    /\ doc.f["header.website_url"] = <<">", "\"", "'">>
    /\ doc.f["overview.goals"] = <<"&", "<">>
    /\ \E i \in 1..Len(out) :
         out[i] = Val(<<"&", "g", "t", ";", "&", "q", "u", "o", "t", ";", "&", "#", "3", "9", ";">>)

Count(t, c) == Cardinality({i \in 1..Len(t) : t[i] = c})
CountPercent22(t) ==
    Cardinality({i \in 1..Len(t) - 2 : SubSeq(t, i, i + 2) = <<"%", "2", "2">>})

\* C10: escapeAttr turns every " of its input into %22 and its output holds
\* no raw ".
C10_QuoteBecomesPercent22 ==
    pc = "escaped" =>
      /\ Count(attr, "\"") = 0
      /\ CountPercent22(attr) = Count(str, "\"")

====
